---------------------------- MODULE Spec2Model ----------------------------
(***************************************************************************)
(* Model of the repetition-counting engine of Training-assistant:          *)
(*   src/src/training_assistant/core/exercise_detector.py                  *)
(*       (RepetitionCounter)                                               *)
(*   src/src/training_assistant/exercises/exercise_library.py              *)
(*       (ExerciseLibrary)                                                 *)
(*                                                                         *)
(* One RepetitionCounter object is constructed (Init) and then driven by   *)
(* update(angles) and reset() calls.  Python floats are modelled as exact  *)
(* rationals n/d plus NaN: on the whole-degree inputs used here every sum  *)
(* is exact in a double and a quotient is never within rounding distance   *)
(* of an integer threshold, so the comparisons agree with the floats'.     *)
(***************************************************************************)
EXTENDS Integers, Sequences, FiniteSets, TLC

(***************************************************************************)
(* Bounds of the model.                                                    *)
(***************************************************************************)
\* largest smoothing_window a counter is constructed with
MaxWindow == 2
\* update() is not called any more once rep_count has reached MaxReps
MaxReps == 2

(***************************************************************************)
(* Python values.                                                          *)
(***************************************************************************)
\* Python's None (also: a key that is absent from the angles dict, as
\* dict.get returns None for it)
None == [none |-> TRUE]

\* float('nan'), represented as 0/0; every other float is n/d with d > 0
NaN == [n |-> 0, d |-> 0]

IsNaN(x) == x.d = 0

Abs(i) == IF i < 0 THEN -i ELSE i

RECURSIVE GCD(_, _)
GCD(a, b) == IF b = 0 THEN a ELSE GCD(b, a % b)

\* the rational n/d (d > 0) in lowest terms
Rat(n, d) == LET g == GCD(Abs(n), d) IN [n |-> n \div g, d |-> d \div g]

\* an int used where a float is expected
Int2F(i) == [n |-> i, d |-> 1]

\* x + y, x - y, x / k (k a positive int), abs(x); NaN propagates
FAdd(x, y) == IF IsNaN(x) \/ IsNaN(y) THEN NaN
              ELSE Rat(x.n * y.d + y.n * x.d, x.d * y.d)
FSub(x, y) == IF IsNaN(x) \/ IsNaN(y) THEN NaN
              ELSE Rat(x.n * y.d - y.n * x.d, x.d * y.d)
FDiv(x, k) == IF IsNaN(x) THEN NaN ELSE Rat(x.n, x.d * k)
FAbs(x)    == IF IsNaN(x) THEN NaN ELSE [n |-> Abs(x.n), d |-> x.d]

\* x < y and x > y; every comparison with NaN is False
FLt(x, y) == ~IsNaN(x) /\ ~IsNaN(y) /\ x.n * y.d < y.n * x.d
FGt(x, y) == FLt(y, x)

\* truth value of an Optional[float] in a boolean context: None and 0.0 are
\* falsy, every other float (NaN too) is truthy
Truthy(x) == x # None /\ (IsNaN(x) \/ x.n # 0)

RECURSIVE FSum(_)
FSum(s) == IF s = <<>> THEN Int2F(0) ELSE FAdd(Head(s), FSum(Tail(s)))

\* np.mean of a non-empty list
np_mean(s) == FDiv(FSum(s), Len(s))

\* str.lower() on the identifiers used here
lower(s) ==
    CASE s = "Pushups" -> "pushups"
      [] s = "PULLUPS" -> "pullups"
      [] s = "PushUps" -> "pushups"
      [] s = "SQUATS" -> "squats"
      [] s = "Lunges" -> "lunges"
      [] s = "Bicep_Curls" -> "bicep_curls"
      [] s = "SHOULDER_PRESS" -> "shoulder_press"
      [] s = "Shoulder_Press" -> "shoulder_press"
      [] s = "Planks" -> "planks"
      [] s = "PLANKS" -> "planks"
      [] s = "Invalid_Exercise" -> "invalid_exercise"
      [] s = "BURPEES" -> "burpees"
      [] OTHER -> s

(***************************************************************************)
(* ExerciseLibrary: the registry of exercise configurations.               *)
(***************************************************************************)
load_exercise_configs ==
    [pushups        |-> [name |-> "pushups", min_angle_threshold |-> 70,  max_angle_threshold |-> 160,
                         primary_angle_type |-> "arm",  movement_pattern |-> "down_up",
                         form_checks |-> <<"arm_symmetry", "depth_check", "back_straight">>],
     squats         |-> [name |-> "squats", min_angle_threshold |-> 70,  max_angle_threshold |-> 160,
                         primary_angle_type |-> "leg",  movement_pattern |-> "down_up",
                         form_checks |-> <<"leg_symmetry", "depth_check", "knee_alignment">>],
     pullups        |-> [name |-> "pullups", min_angle_threshold |-> 40,  max_angle_threshold |-> 160,
                         primary_angle_type |-> "arm",  movement_pattern |-> "up_down",
                         form_checks |-> <<"full_extension", "chin_over_bar", "arm_symmetry">>],
     lunges         |-> [name |-> "lunges", min_angle_threshold |-> 80,  max_angle_threshold |-> 160,
                         primary_angle_type |-> "leg",  movement_pattern |-> "down_up",
                         form_checks |-> <<"front_knee_alignment", "depth_check", "balance">>],
     bicep_curls    |-> [name |-> "bicep_curls", min_angle_threshold |-> 30,  max_angle_threshold |-> 160,
                         primary_angle_type |-> "arm",  movement_pattern |-> "up_down",
                         form_checks |-> <<"elbow_stability", "full_range_motion", "controlled_movement">>],
     shoulder_press |-> [name |-> "shoulder_press", min_angle_threshold |-> 45,  max_angle_threshold |-> 170,
                         primary_angle_type |-> "arm",  movement_pattern |-> "up_down",
                         form_checks |-> <<"arm_symmetry", "full_extension", "core_stability">>],
     planks         |-> [name |-> "planks", min_angle_threshold |-> 170, max_angle_threshold |-> 190,
                         primary_angle_type |-> "body", movement_pattern |-> "hold",
                         form_checks |-> <<"straight_back", "core_engagement", "breathing">>]]

\* validate_exercise_name without the lower()
validate_exercise_name_case_sensitive(exercise_name) ==
    exercise_name \in DOMAIN load_exercise_configs

\* ExerciseLibrary.validate_exercise_name
validate_exercise_name(exercise_name) ==
    lower(exercise_name) \in DOMAIN load_exercise_configs

\* get_exercise with a default: dict.get(name, self.exercises["pushups"])
get_exercise_default(exercise_name) ==
    IF lower(exercise_name) \in DOMAIN load_exercise_configs
    THEN load_exercise_configs[lower(exercise_name)]
    ELSE load_exercise_configs["pushups"]

\* ExerciseLibrary.get_exercise: dict.get, None for an unknown name
get_exercise(exercise_name) ==
    IF lower(exercise_name) \in DOMAIN load_exercise_configs
    THEN load_exercise_configs[lower(exercise_name)]
    ELSE None

(***************************************************************************)
(* Inputs.                                                                 *)
(***************************************************************************)
\* identifiers a counter is constructed with: the seven registered ones,
\* two of them in another letter case, and one that is not registered
ExerciseArgs ==
    {"pushups", "squats", "pullups", "lunges", "bicep_curls", "shoulder_press",
     "planks", "Pushups", "PULLUPS", "burpees"}

Labels == {"left_arm", "right_arm", "left_leg", "right_leg"}

\* whole-degree angle values of one limb: 0 is below every min threshold
\* and 180 above every max threshold; the mean of 0 and 140 is the min
\* threshold 70 and the mean of 140 and 180 the max threshold 160
AngleValues == {Int2F(0), Int2F(140), Int2F(180)}

\* the angles dicts passed to update(): every limb absent or measured, or
\* every measured limb NaN; of the two limb pairs either one is absent
\* altogether or the legs read as the arms do
Frames ==
    {f \in [Labels -> AngleValues \cup {None}] \cup [Labels -> {None, NaN}] :
        \/ f["left_arm"] = None /\ f["right_arm"] = None
        \/ f["left_leg"] = None /\ f["right_leg"] = None
        \/ f["left_leg"] = f["left_arm"] /\ f["right_leg"] = f["right_arm"]}

(***************************************************************************)
(* RepetitionCounter.  A counter object is a record of its attributes;     *)
(* every method is an operator from the object (and the arguments) to the  *)
(* object after the call and the value returned.                           *)
(***************************************************************************)
\* _setup_exercise_parameters: thresholds and primary angle per exercise
setup_exercise_parameters(self) ==
    CASE self.exercise_type = "pushups" ->
           [self EXCEPT !.min_angle_threshold = 70, !.max_angle_threshold = 160,
                        !.primary_angle = "arm"]
      [] self.exercise_type = "squats" ->
           [self EXCEPT !.min_angle_threshold = 70, !.max_angle_threshold = 160,
                        !.primary_angle = "leg"]
      [] self.exercise_type = "pullups" ->
           [self EXCEPT !.min_angle_threshold = 40, !.max_angle_threshold = 160,
                        !.primary_angle = "arm"]
      [] self.exercise_type = "lunges" ->
           [self EXCEPT !.min_angle_threshold = 80, !.max_angle_threshold = 160,
                        !.primary_angle = "leg"]
      [] self.exercise_type = "bicep_curls" ->
           [self EXCEPT !.min_angle_threshold = 30, !.max_angle_threshold = 160,
                        !.primary_angle = "arm"]
      [] OTHER ->          \* default parameters
           [self EXCEPT !.min_angle_threshold = 70, !.max_angle_threshold = 160,
                        !.primary_angle = "arm"]

\* init, but an identifier that the library does not register is refused
init_refusing(exercise_type, smoothing_window) ==
    IF lower(exercise_type) \in DOMAIN load_exercise_configs
    THEN [self   |-> setup_exercise_parameters(
                         [exercise_type       |-> lower(exercise_type),
                          smoothing_window    |-> smoothing_window,
                          angle_history       |-> <<>>,
                          rep_count           |-> 0,
                          in_rep              |-> FALSE,
                          last_direction      |-> None,
                          min_angle_threshold |-> None,
                          max_angle_threshold |-> None,
                          primary_angle       |-> None,
                          current_phase       |-> "ready",
                          form_feedback       |-> <<>>]),
          raised |-> "none"]
    ELSE [self |-> None, raised |-> "ValueError"]

\* __init__: the new object and the exception raised ("none": the call
\* returned); the thresholds and primary_angle are None until
\* _setup_exercise_parameters sets them
init(exercise_type, smoothing_window) ==
    [self   |-> setup_exercise_parameters(
                    [exercise_type       |-> lower(exercise_type),
                     smoothing_window    |-> smoothing_window,
                     angle_history       |-> <<>>,
                     rep_count           |-> 0,
                     in_rep              |-> FALSE,
                     last_direction      |-> None,
                     min_angle_threshold |-> None,
                     max_angle_threshold |-> None,
                     primary_angle       |-> None,
                     current_phase       |-> "ready",
                     form_feedback       |-> <<>>]),
     raised |-> "none"]

\* the mean of both sides, else the side that is present, else None
\* the left/right selection with truth tests (`if left and right`) in place
\* of the `is not None` tests
limb_pair_angle_truthy(left, right) ==
    IF Truthy(left) /\ Truthy(right) THEN FDiv(FAdd(left, right), 2)
    ELSE IF Truthy(left) THEN left
    ELSE IF Truthy(right) THEN right
    ELSE None

limb_pair_angle(left, right) ==
    IF left # None /\ right # None THEN FDiv(FAdd(left, right), 2)
    ELSE IF left # None THEN left
    ELSE IF right # None THEN right
    ELSE None

\* get_primary_angle
get_primary_angle(self, angles) ==
    IF self.primary_angle = "arm"
    THEN limb_pair_angle(angles["left_arm"], angles["right_arm"])
    ELSE IF self.primary_angle = "leg"
    THEN limb_pair_angle(angles["left_leg"], angles["right_leg"])
    ELSE None

\* a list's append in place of the deque's: no entry ever leaves
deque_append_unbounded(history, maxlen, x) == Append(history, x)

\* the deque's append with twice the maxlen: deque(maxlen=2 * window)
deque_append_oversized(history, maxlen, x) ==
    IF Len(history) < 2 * maxlen THEN Append(history, x)
    ELSE Append(Tail(history), x)

\* deque(maxlen=...).append: the oldest entry leaves a full deque
deque_append(history, maxlen, x) ==
    IF Len(history) >= maxlen THEN Append(Tail(history), x)
    ELSE Append(history, x)

\* smooth_angle, but dividing the sum by the window while the buffer fills
smooth_angle_padded(self, angle) ==
    LET h == deque_append(self.angle_history, self.smoothing_window, angle)
    IN  [self  |-> [self EXCEPT !.angle_history = h],
         value |-> FDiv(FSum(h), self.smoothing_window)]

\* smooth_angle: appends to angle_history and returns its mean
smooth_angle(self, angle) ==
    LET h == deque_append(self.angle_history, self.smoothing_window, angle)
    IN  [self  |-> [self EXCEPT !.angle_history = h],
         value |-> np_mean(h)]

\* x <= y and x >= y
FLe(x, y) == ~IsNaN(x) /\ ~IsNaN(y) /\ x.n * y.d <= y.n * x.d
FGe(x, y) == FLe(y, x)

\* variants of _detect_repetition: the exercises in `counted` run the
\* machine with first-leg phase `leg`; a completed cycle adds `step`;
\* `inclusive` compares with <= and >=; `ungated` counts on every angle
\* above the max threshold, whatever the phase
detect_variant(self, angle, counted, leg, step, inclusive, ungated) ==
    LET below == IF inclusive THEN FLe(angle, Int2F(self.min_angle_threshold))
                 ELSE FLt(angle, Int2F(self.min_angle_threshold))
        above == IF inclusive THEN FGe(angle, Int2F(self.max_angle_threshold))
                 ELSE FGt(angle, Int2F(self.max_angle_threshold))
    IN  IF self.exercise_type \notin counted
        THEN [self |-> self, value |-> FALSE]
        ELSE IF above /\ (ungated \/ self.current_phase = leg)
        THEN [self  |-> [self EXCEPT !.rep_count = @ + step,
                                     !.current_phase = "ready"],
              value |-> TRUE]
        ELSE IF self.current_phase = "ready" /\ below
        THEN [self |-> [self EXCEPT !.current_phase = leg], value |-> FALSE]
        ELSE [self |-> self, value |-> FALSE]

\* the first-leg phase the code uses for an exercise
leg_of(self) ==
    IF self.exercise_type \in {"pullups", "bicep_curls"} THEN "up" ELSE "down"

\* _detect_repetition, but both phase assignments of a completed cycle count
detect_repetition_twice(self, angle) ==
    detect_variant(self, angle,
                   {"pushups", "squats", "lunges", "pullups", "bicep_curls"},
                   leg_of(self), 2, FALSE, FALSE)

\* _detect_repetition, but comparing with <= and >=
detect_repetition_inclusive(self, angle) ==
    detect_variant(self, angle,
                   {"pushups", "squats", "lunges", "pullups", "bicep_curls"},
                   leg_of(self), 1, TRUE, FALSE)

\* _detect_repetition, but without the check of the phase before counting
detect_repetition_ungated(self, angle) ==
    detect_variant(self, angle,
                   {"pushups", "squats", "lunges", "pullups", "bicep_curls"},
                   leg_of(self), 1, FALSE, TRUE)

\* _detect_repetition, but the down-up machine is the else branch
detect_repetition_else(self, angle) ==
    detect_variant(self, angle,
                   {"pushups", "squats", "lunges", "pullups", "bicep_curls",
                    "shoulder_press", "planks", "burpees"},
                   leg_of(self), 1, FALSE, FALSE)

\* _detect_repetition, but the rep is counted at the bottom of the movement,
\* on entering the first-leg phase
detect_repetition_bottom(self, angle) ==
    IF self.exercise_type \notin {"pushups", "squats", "lunges", "pullups",
                                  "bicep_curls"}
    THEN [self |-> self, value |-> FALSE]
    ELSE IF self.current_phase = "ready"
    THEN IF FLt(angle, Int2F(self.min_angle_threshold))
         THEN [self  |-> [self EXCEPT !.rep_count = @ + 1,
                                      !.current_phase = leg_of(self)],
               value |-> TRUE]
         ELSE [self |-> self, value |-> FALSE]
    ELSE IF FGt(angle, Int2F(self.max_angle_threshold))
    THEN [self |-> [self EXCEPT !.current_phase = "ready"], value |-> FALSE]
    ELSE [self |-> self, value |-> FALSE]

\* _detect_repetition, but a counted rep leaves the phase where it was
detect_repetition_stays(self, angle) ==
    IF self.exercise_type \notin {"pushups", "squats", "lunges", "pullups",
                                  "bicep_curls"}
    THEN [self |-> self, value |-> FALSE]
    ELSE IF self.current_phase = "ready"
    THEN IF FLt(angle, Int2F(self.min_angle_threshold))
         THEN [self  |-> [self EXCEPT !.current_phase = leg_of(self)],
               value |-> FALSE]
         ELSE [self |-> self, value |-> FALSE]
    ELSE IF FGt(angle, Int2F(self.max_angle_threshold))
    THEN [self |-> [self EXCEPT !.rep_count = @ + 1], value |-> TRUE]
    ELSE [self |-> self, value |-> FALSE]

\* _detect_repetition: the phase state machine
detect_repetition(self, angle) ==
    IF self.exercise_type \in {"pushups", "squats", "lunges"}
    THEN IF self.current_phase = "ready"
         THEN IF FLt(angle, Int2F(self.min_angle_threshold))
              THEN [self  |-> [self EXCEPT !.current_phase = "down"],
                    value |-> FALSE]
              ELSE [self |-> self, value |-> FALSE]
         ELSE IF self.current_phase = "down"
                 /\ FGt(angle, Int2F(self.max_angle_threshold))
         THEN [self  |-> [self EXCEPT !.rep_count = @ + 1,
                                      !.current_phase = "ready"],
               value |-> TRUE]
         ELSE [self |-> self, value |-> FALSE]
    ELSE IF self.exercise_type \in {"pullups", "bicep_curls"}
    THEN IF self.current_phase = "ready"
         THEN IF FLt(angle, Int2F(self.min_angle_threshold))
              THEN [self  |-> [self EXCEPT !.current_phase = "up"],
                    value |-> FALSE]
              ELSE [self |-> self, value |-> FALSE]
         ELSE IF self.current_phase = "up"
                 /\ FGt(angle, Int2F(self.max_angle_threshold))
         THEN [self  |-> [self EXCEPT !.rep_count = @ + 1,
                                      !.current_phase = "ready"],
               value |-> TRUE]
         ELSE [self |-> self, value |-> FALSE]
    ELSE [self |-> self, value |-> FALSE]

\* _evaluate_pushup_form, but the depth check does not look at the phase
evaluate_pushup_form_unphased(self, angles, primary_angle) ==
    LET left_arm  == angles["left_arm"]
        right_arm == angles["right_arm"]
    IN  (IF Truthy(left_arm) /\ Truthy(right_arm)
            /\ FGt(FAbs(FSub(left_arm, right_arm)), Int2F(15))
         THEN <<"Keep arms symmetric">> ELSE <<>>)
        \o
        (IF FGt(primary_angle, Int2F(90))
         THEN <<"Go lower - chest to ground">> ELSE <<>>)

\* _evaluate_pushup_form
evaluate_pushup_form(self, angles, primary_angle) ==
    LET left_arm  == angles["left_arm"]
        right_arm == angles["right_arm"]
    IN  (IF Truthy(left_arm) /\ Truthy(right_arm)
            /\ FGt(FAbs(FSub(left_arm, right_arm)), Int2F(15))
         THEN <<"Keep arms symmetric">> ELSE <<>>)
        \o
        (IF self.current_phase = "down" /\ FGt(primary_angle, Int2F(90))
         THEN <<"Go lower - chest to ground">> ELSE <<>>)

\* _evaluate_squat_form
evaluate_squat_form(self, angles, primary_angle) ==
    LET left_leg  == angles["left_leg"]
        right_leg == angles["right_leg"]
    IN  (IF self.current_phase = "down" /\ FGt(primary_angle, Int2F(90))
         THEN <<"Squat deeper - thighs parallel to ground">> ELSE <<>>)
        \o
        (IF Truthy(left_leg) /\ Truthy(right_leg)
            /\ FGt(FAbs(FSub(left_leg, right_leg)), Int2F(20))
         THEN <<"Balance both legs evenly">> ELSE <<>>)

\* _evaluate_pullup_form
evaluate_pullup_form(self, angles, primary_angle) ==
    (IF self.current_phase = "ready" /\ FLt(primary_angle, Int2F(150))
     THEN <<"Full arm extension at bottom">> ELSE <<>>)
    \o
    (IF self.current_phase = "up" /\ FGt(primary_angle, Int2F(50))
     THEN <<"Pull chin over the bar">> ELSE <<>>)

\* _evaluate_form, but the closing message is appended whether or not a
\* rule has fired
evaluate_form_always_affirms(self, angles, primary_angle) ==
    (IF self.exercise_type = "pushups"
     THEN evaluate_pushup_form(self, angles, primary_angle)
     ELSE IF self.exercise_type = "squats"
     THEN evaluate_squat_form(self, angles, primary_angle)
     ELSE IF self.exercise_type = "pullups"
     THEN evaluate_pullup_form(self, angles, primary_angle)
     ELSE IF self.current_phase = "down"
             /\ FGt(primary_angle, Int2F(self.min_angle_threshold + 20))
     THEN <<"Go deeper">>
     ELSE IF self.current_phase = "up"
             /\ FLt(primary_angle, Int2F(self.max_angle_threshold - 20))
     THEN <<"Full extension">>
     ELSE <<>>)
    \o
    (IF self.current_phase = "ready"
     THEN <<"Good form! Ready for next rep">>
     ELSE <<"Keep going!">>)

\* _evaluate_form: called with the smoothed angle as primary_angle
evaluate_form(self, angles, primary_angle) ==
    LET feedback ==
          IF self.exercise_type = "pushups"
          THEN evaluate_pushup_form(self, angles, primary_angle)
          ELSE IF self.exercise_type = "squats"
          THEN evaluate_squat_form(self, angles, primary_angle)
          ELSE IF self.exercise_type = "pullups"
          THEN evaluate_pullup_form(self, angles, primary_angle)
          ELSE IF self.current_phase = "down"
                  /\ FGt(primary_angle, Int2F(self.min_angle_threshold + 20))
          THEN <<"Go deeper">>
          ELSE IF self.current_phase = "up"
                  /\ FLt(primary_angle, Int2F(self.max_angle_threshold - 20))
          THEN <<"Full extension">>
          ELSE <<>>
    IN  IF feedback # <<>> THEN feedback
        ELSE IF self.current_phase = "ready"
        THEN <<"Good form! Ready for next rep">>
        ELSE <<"Keep going!">>

\* update, but the form is evaluated on the mean of the buffer padded with
\* zeros to the window
update_feedback_on_padded(self, angles) ==
    LET primary_angle == get_primary_angle(self, angles) IN
    IF primary_angle = None
    THEN [self  |-> self,
          value |-> [rep_count     |-> self.rep_count,
                     current_phase |-> self.current_phase,
                     form_feedback |-> <<"Unable to detect pose">>,
                     angle         |-> None]]
    ELSE LET smoothed == smooth_angle(self, primary_angle)
             detected == detect_repetition(smoothed.self, smoothed.value)
             self2    == detected.self
             padded   == FDiv(FSum(self2.angle_history), self2.smoothing_window)
         IN  [self  |-> self2,
              value |-> [rep_count     |-> self2.rep_count,
                         current_phase |-> self2.current_phase,
                         form_feedback |-> evaluate_form(self2, angles, padded),
                         angle         |-> smoothed.value,
                         rep_detected  |-> detected.value]]

\* update, but a frame without the primary angle is smoothed as 0
update_zero_fill(self, angles) ==
    LET primary_angle == get_primary_angle(self, angles)
        smoothed == smooth_angle(self, IF primary_angle = None THEN Int2F(0)
                                       ELSE primary_angle)
        detected == detect_repetition(smoothed.self, smoothed.value)
        self2    == detected.self
    IN  IF primary_angle = None
        THEN [self  |-> self2,
              value |-> [rep_count     |-> self2.rep_count,
                         current_phase |-> self2.current_phase,
                         form_feedback |-> <<"Unable to detect pose">>,
                         angle         |-> None]]
        ELSE [self  |-> self2,
              value |-> [rep_count     |-> self2.rep_count,
                         current_phase |-> self2.current_phase,
                         form_feedback |-> evaluate_form(self2, angles, smoothed.value),
                         angle         |-> smoothed.value,
                         rep_detected  |-> detected.value]]

\* update, but a frame without the primary angle returns the stored
\* form_feedback attribute and the mean of the samples held
update_stale_feedback(self, angles) ==
    LET primary_angle == get_primary_angle(self, angles) IN
    IF primary_angle = None
    THEN [self  |-> self,
          value |-> [rep_count     |-> self.rep_count,
                     current_phase |-> self.current_phase,
                     form_feedback |-> self.form_feedback,
                     angle         |-> IF self.angle_history = <<>> THEN None
                                       ELSE np_mean(self.angle_history)]]
    ELSE LET smoothed == smooth_angle(self, primary_angle)
             detected == detect_repetition(smoothed.self, smoothed.value)
             self2    == detected.self
         IN  [self  |-> self2,
              value |-> [rep_count     |-> self2.rep_count,
                         current_phase |-> self2.current_phase,
                         form_feedback |-> evaluate_form(self2, angles, smoothed.value),
                         angle         |-> smoothed.value,
                         rep_detected  |-> detected.value]]

\* update: the object after the call and the dict returned
update(self, angles) ==
    LET primary_angle == get_primary_angle(self, angles) IN
    IF primary_angle = None
    THEN [self  |-> self,
          value |-> [rep_count     |-> self.rep_count,
                     current_phase |-> self.current_phase,
                     form_feedback |-> <<"Unable to detect pose">>,
                     angle         |-> None]]
    ELSE LET smoothed == smooth_angle(self, primary_angle)
             detected == detect_repetition(smoothed.self, smoothed.value)
             self2    == detected.self
         IN  [self  |-> self2,
              value |-> [rep_count     |-> self2.rep_count,
                         current_phase |-> self2.current_phase,
                         form_feedback |-> evaluate_form(self2, angles, smoothed.value),
                         angle         |-> smoothed.value,
                         rep_detected  |-> detected.value]]

\* reset, but without `self.current_phase = "ready"`
reset_keeps_phase(self) ==
    [self EXCEPT !.rep_count = 0, !.angle_history = <<>>,
                 !.form_feedback = <<>>]

\* reset, but the smoothing buffer is kept
reset_keeps_history(self) ==
    [self EXCEPT !.rep_count = 0, !.current_phase = "ready",
                 !.form_feedback = <<>>]

\* reset
reset(self) ==
    [self EXCEPT !.rep_count = 0, !.current_phase = "ready",
                 !.angle_history = <<>>, !.form_feedback = <<>>]

(***************************************************************************)
(* The state machine: one counter object and the last call made on it.     *)
(***************************************************************************)
VARIABLES
    ctr,      \* the RepetitionCounter object (None: no object exists)
    call,     \* the last call: its name; for __init__ its arguments; for
              \* update whether the frame lacked the selected limb pair
    result,   \* the value the last call returned
    raised,   \* the exception the last call raised, or "none"
    dipped,   \* history: an update since __init__, reset() or the last
              \* counted rep smoothed to below min_angle_threshold
    fed,      \* history kept by the specifications that drive one method:
              \* the arguments passed since __init__ or reset() (in DemoSpec:
              \* what result.get('rep_detected') was, frame by frame)
    ctr2,     \* a second RepetitionCounter object (None: no object exists)
    result2,  \* the value the last call on ctr2 returned
    exercises \* ExerciseLibrary.exercises: the dict of the registry

vars == <<ctr, call, result, raised, dipped, fed, ctr2, result2, exercises>>

\* what the calls on the one counter of Spec leave alone
single == <<fed, ctr2, result2, exercises>>

\* rep_counter = RepetitionCounter(exercise_type, smoothing_window)
Init ==
    \E t \in ExerciseArgs, w \in 1..MaxWindow :
        LET made == init(t, w) IN
        /\ ctr = made.self
        /\ call = [op |-> "__init__", exercise_type |-> t, smoothing_window |-> w]
        /\ result = None
        /\ raised = made.raised
        /\ dipped = FALSE
        /\ exercises = load_exercise_configs
        /\ fed = <<>>
        /\ ctr2 = None
        /\ result2 = None

\* the frame has neither side of the limb pair the counter selects
PrimaryMissing(self, angles) ==
    IF self.primary_angle = "arm"
    THEN angles["left_arm"] = None /\ angles["right_arm"] = None
    ELSE angles["left_leg"] = None /\ angles["right_leg"] = None

\* rep_update = rep_counter.update(angles)
Update(angles) ==
    /\ ctr # None
    /\ ctr.rep_count < MaxReps
    /\ LET r == update(ctr, angles) IN
       /\ ctr' = r.self
       /\ result' = r.value
       /\ dipped' = IF r.self.rep_count # ctr.rep_count THEN FALSE
                    ELSE dipped \/ (r.value.angle # None
                                    /\ FLt(r.value.angle, Int2F(ctr.min_angle_threshold)))
    /\ call' = [op |-> "update", primary_missing |-> PrimaryMissing(ctr, angles)]
    /\ raised' = "none"
    /\ UNCHANGED single

\* rep_counter.reset()
Reset ==
    /\ ctr # None
    /\ ctr' = reset(ctr)
    /\ call' = [op |-> "reset"]
    /\ result' = None
    /\ raised' = "none"
    /\ dipped' = FALSE
    /\ UNCHANGED single

Next ==
    \/ \E angles \in Frames : Update(angles)
    \/ Reset

Spec == Init /\ [][Next]_vars

(***************************************************************************)
(* The smoother alone: smooth_angle() and reset() on counters of every     *)
(* window up to the default one, with the pushed values kept in fed.       *)
(***************************************************************************)
\* smoothing_window: int = 5
DefaultWindow == 5

\* smooth_angle() is not called any more once MaxPushes values are held in fed
MaxPushes == 6

\* the values pushed
PushValues == {Int2F(0), Int2F(100), Int2F(200)}

SmoothInit ==
    \E w \in 1..DefaultWindow :
        /\ ctr = init("pushups", w).self
        /\ call = [op |-> "__init__", exercise_type |-> "pushups",
                                      smoothing_window |-> w]
        /\ result = None
        /\ raised = "none"
        /\ dipped = FALSE
        /\ exercises = load_exercise_configs
        /\ fed = <<>>
        /\ ctr2 = None
        /\ result2 = None

\* smoothed_angle = self.smooth_angle(primary_angle)
SmoothPush(angle) ==
    /\ Len(fed) < MaxPushes
    /\ LET r == smooth_angle(ctr, angle) IN
       /\ ctr' = r.self
       /\ result' = r.value
    /\ call' = [op |-> "smooth_angle"]
    /\ fed' = Append(fed, angle)
    /\ UNCHANGED <<exercises, raised, dipped, ctr2, result2>>

\* rep_counter.reset()
SmoothReset ==
    /\ fed # <<>>
    /\ ctr' = reset(ctr)
    /\ call' = [op |-> "reset"]
    /\ result' = None
    /\ fed' = <<>>
    /\ UNCHANGED <<exercises, raised, dipped, ctr2, result2>>

SmoothNext ==
    \/ \E angle \in PushValues : SmoothPush(angle)
    \/ SmoothReset

SmoothSpec == SmoothInit /\ [][SmoothNext]_vars

(***************************************************************************)
(* The phase state machine alone: _detect_repetition() called from Ready   *)
(* with the smoothed angles of a script, or with angles that leave the     *)
(* script in a bounded number of places; fed holds the angles passed.      *)
(***************************************************************************)
\* the places where the angles passed may differ from the script
MaxDeviations == 1

DownUpScript ==
    <<Int2F(170), Int2F(150), Int2F(120), Int2F(80), Int2F(65), Int2F(90),
      Int2F(130), Int2F(165)>>

UpDownScript == <<Int2F(170), Int2F(100), Int2F(25), Int2F(140), Int2F(165)>>

\* the script run on a counter: by the first-leg phase of its machine
Script(self) ==
    IF self.exercise_type \in {"pushups", "squats", "lunges"}
    THEN DownUpScript ELSE UpDownScript

ScriptValues ==
    {DownUpScript[i] : i \in 1..Len(DownUpScript)}
        \cup {UpDownScript[i] : i \in 1..Len(UpDownScript)}

Deviations(self, angles) ==
    Cardinality({i \in 1..Len(angles) : angles[i] # Script(self)[i]})

DetectInit ==
    \E t \in {"pushups", "squats", "bicep_curls"} :
        /\ ctr = init(t, DefaultWindow).self
        /\ call = [op |-> "__init__", exercise_type |-> t,
                                      smoothing_window |-> DefaultWindow]
        /\ result = None
        /\ raised = "none"
        /\ dipped = FALSE
        /\ exercises = load_exercise_configs
        /\ fed = <<>>
        /\ ctr2 = None
        /\ result2 = None

\* rep_detected = self._detect_repetition(smoothed_angle)
DetectFeed(angle) ==
    /\ Len(fed) < Len(Script(ctr))
    /\ \/ angle = Script(ctr)[Len(fed) + 1]
       \/ Deviations(ctr, fed) < MaxDeviations
    /\ LET r == detect_repetition(ctr, angle) IN
       /\ ctr' = r.self
       /\ result' = r.value
    /\ call' = [op |-> "_detect_repetition"]
    /\ fed' = Append(fed, angle)
    /\ UNCHANGED <<exercises, raised, dipped, ctr2, result2>>

DetectNext == \E angle \in ScriptValues : DetectFeed(angle)

DetectSpec == DetectInit /\ [][DetectNext]_vars

(***************************************************************************)
(* Two counters for the same exercise and window.  The second one is also  *)
(* updated and reset on its own, so that the two differ in buffer and      *)
(* phase when both are given the same frame.                               *)
(***************************************************************************)
MaxPairWindow == 2
MaxPairReps == 1

\* the frames given to the pair: every limb absent, or every limb measured
\* and reading the same
PairFrames == {[l \in Labels |-> v] : v \in AngleValues \cup {None}}

\* one exercise for each branch of _evaluate_form
PairExercises == {"pushups", "squats", "pullups", "bicep_curls"}

PairInit ==
    \E t \in PairExercises, w \in 1..MaxPairWindow :
        /\ ctr = init(t, w).self
        /\ ctr2 = init(t, w).self
        /\ call = [op |-> "__init__", exercise_type |-> t, smoothing_window |-> w]
        /\ result = None
        /\ result2 = None
        /\ raised = "none"
        /\ dipped = FALSE
        /\ exercises = load_exercise_configs
        /\ fed = <<>>

\* both counters are given the frame
PairUpdate(angles) ==
    /\ ctr.rep_count < MaxPairReps
    /\ ctr2.rep_count < MaxPairReps
    /\ LET r == update(ctr, angles) IN
       /\ ctr' = r.self
       /\ result' = r.value
    /\ LET r == update(ctr2, angles) IN
       /\ ctr2' = r.self
       /\ result2' = r.value
    /\ call' = [op |-> "update", on |-> "both",
                same_phase |-> ctr.current_phase = ctr2.current_phase]
    /\ UNCHANGED <<exercises, raised, dipped, fed>>

\* the second counter alone is given the frame
PairUpdateSecond(angles) ==
    /\ ctr2.rep_count < MaxPairReps
    /\ LET r == update(ctr2, angles) IN
       /\ ctr2' = r.self
       /\ result2' = r.value
    /\ call' = [op |-> "update", on |-> "second",
                same_phase |-> ctr.current_phase = ctr2.current_phase]
    /\ UNCHANGED <<exercises, ctr, result, raised, dipped, fed>>

\* the second counter is reset
PairResetSecond ==
    /\ ctr2' = reset(ctr2)
    /\ result2' = None
    /\ call' = [op |-> "reset", on |-> "second"]
    /\ UNCHANGED <<exercises, ctr, result, raised, dipped, fed>>

PairNext ==
    \/ \E angles \in PairFrames : PairUpdate(angles)
    \/ \E angles \in PairFrames : PairUpdateSecond(angles)
    \/ PairResetSecond

PairSpec == PairInit /\ [][PairNext]_vars

(***************************************************************************)
(* Two sessions: counters A (ctr) and B (ctr2), each for its own exercise, *)
(* called in any interleaving; fed is the log of the calls made.           *)
(***************************************************************************)
\* no call is made once the log holds MaxCalls calls
MaxCalls == 3

\* the frames given to the sessions: every limb absent, or every limb
\* reading 0, or every limb reading 180
IsoFrames == {[l \in Labels |-> v] : v \in {None, Int2F(0), Int2F(180)}}

\* one down-up and one up-down exercise
IsoExercises == {"pushups", "pullups"}

IsoInit ==
    \E ta \in IsoExercises, tb \in IsoExercises, w \in 1..MaxPairWindow :
        /\ ctr = init(ta, w).self
        /\ ctr2 = init(tb, w).self
        /\ call = [op |-> "__init__"]
        /\ result = None
        /\ result2 = None
        /\ raised = "none"
        /\ dipped = FALSE
        /\ exercises = load_exercise_configs
        /\ fed = <<>>

\* update() of a class whose angle_history is a class attribute, one deque
\* shared by every instance
IsoUpdate_shared_history(who, angles) ==
    /\ Len(fed) < MaxCalls
    /\ IF who = "A"
       THEN LET r == update(ctr, angles) IN
            /\ ctr' = r.self
            /\ result' = r.value
            /\ ctr2' = [ctr2 EXCEPT !.angle_history = r.self.angle_history]
            /\ UNCHANGED result2
       ELSE LET r == update(ctr2, angles) IN
            /\ ctr2' = r.self
            /\ result2' = r.value
            /\ ctr' = [ctr EXCEPT !.angle_history = r.self.angle_history]
            /\ UNCHANGED result
    /\ call' = [op |-> "update", on |-> who]
    /\ fed' = Append(fed, [on |-> who, op |-> "update", angles |-> angles])
    /\ UNCHANGED <<exercises, raised, dipped>>

\* rep_counter.update(angles) in session who
IsoUpdate(who, angles) ==
    /\ Len(fed) < MaxCalls
    /\ IF who = "A"
       THEN LET r == update(ctr, angles) IN
            /\ ctr' = r.self
            /\ result' = r.value
            /\ UNCHANGED <<ctr2, result2>>
       ELSE LET r == update(ctr2, angles) IN
            /\ ctr2' = r.self
            /\ result2' = r.value
            /\ UNCHANGED <<ctr, result>>
    /\ call' = [op |-> "update", on |-> who]
    /\ fed' = Append(fed, [on |-> who, op |-> "update", angles |-> angles])
    /\ UNCHANGED <<exercises, raised, dipped>>

\* rep_counter.reset() in session who
IsoReset(who) ==
    /\ Len(fed) < MaxCalls
    /\ IF who = "A"
       THEN /\ ctr' = reset(ctr)
            /\ result' = None
            /\ UNCHANGED <<ctr2, result2>>
       ELSE /\ ctr2' = reset(ctr2)
            /\ result2' = None
            /\ UNCHANGED <<ctr, result>>
    /\ call' = [op |-> "reset", on |-> who]
    /\ fed' = Append(fed, [on |-> who, op |-> "reset", angles |-> None])
    /\ UNCHANGED <<exercises, raised, dipped>>

IsoNext ==
    \/ \E who \in {"A", "B"}, angles \in IsoFrames : IsoUpdate(who, angles)
    \/ \E who \in {"A", "B"} : IsoReset(who)

IsoSpec == IsoInit /\ [][IsoNext]_vars

(***************************************************************************)
(* The registry and the construction of a counter: get_exercise(),         *)
(* validate_exercise_name() and RepetitionCounter(name) called with        *)
(* identifiers in several letter cases, registered or not.                 *)
(***************************************************************************)
LibraryNames ==
    {"pushups", "squats", "pullups", "lunges", "bicep_curls", "shoulder_press",
     "planks", "Pushups", "PushUps", "PULLUPS", "SQUATS", "Lunges",
     "Bicep_Curls", "SHOULDER_PRESS", "Shoulder_Press", "Planks", "PLANKS",
     "invalid_exercise", "Invalid_Exercise", "burpees", "BURPEES"}

\* library = ExerciseLibrary(); no counter yet
LibInit ==
    /\ exercises = load_exercise_configs
    /\ ctr = None
    /\ call = [op |-> "ExerciseLibrary"]
    /\ result = None
    /\ raised = "none"
    /\ dipped = FALSE
    /\ fed = <<>>
    /\ ctr2 = None
    /\ result2 = None

\* config = library.get_exercise(exercise_name)
LibGetExercise(exercise_name) ==
    /\ result' = get_exercise(exercise_name)
    /\ raised' = "none"
    /\ call' = [op |-> "get_exercise", exercise_name |-> exercise_name]
    /\ UNCHANGED <<exercises, ctr, dipped, fed, ctr2, result2>>

\* library.validate_exercise_name(exercise_name)
LibValidateExerciseName(exercise_name) ==
    /\ result' = validate_exercise_name(exercise_name)
    /\ raised' = "none"
    /\ call' = [op |-> "validate_exercise_name", exercise_name |-> exercise_name]
    /\ UNCHANGED <<exercises, ctr, dipped, fed, ctr2, result2>>

\* rep_counter = RepetitionCounter(exercise_type)
LibNewCounter(exercise_type) ==
    /\ LET made == init(exercise_type, DefaultWindow) IN
       /\ ctr' = made.self
       /\ raised' = made.raised
    /\ result' = None
    /\ call' = [op |-> "__init__", exercise_type |-> exercise_type]
    /\ UNCHANGED <<exercises, dipped, fed, ctr2, result2>>

LibNext ==
    \/ \E name \in LibraryNames : LibGetExercise(name)
    \/ \E name \in LibraryNames : LibValidateExerciseName(name)
    \/ \E name \in LibraryNames : LibNewCounter(name)

LibSpec == LibInit /\ [][LibNext]_vars

(***************************************************************************)
(* demo_repetition_counter(): a push-up counter with the default window is *)
(* given the demo's angle sequence, each arm off the listed angle by a     *)
(* random amount; fed holds what result.get('rep_detected') was for the    *)
(* frames given so far.                                                    *)
(***************************************************************************)
angle_sequence == <<170, 160, 120, 80, 120, 160, 170, 150, 90, 75, 100, 170>>

\* np.random.uniform(-5, 5): both ends and the middle
NoiseValues == {0 - 5, 0, 5}

DemoInit ==
    /\ ctr = init("pushups", DefaultWindow).self
    /\ call = [op |-> "__init__", exercise_type |-> "pushups",
                                  smoothing_window |-> DefaultWindow]
    /\ result = None
    /\ raised = "none"
    /\ dipped = FALSE
    /\ exercises = load_exercise_configs
    /\ fed = <<>>
    /\ ctr2 = None
    /\ result2 = None

\* one pass of the loop: result = counter.update(angles)
DemoFrame(left_noise, right_noise) ==
    /\ Len(fed) < Len(angle_sequence)
    /\ LET angle  == angle_sequence[Len(fed) + 1]
           angles == [left_arm  |-> Int2F(angle + left_noise),
                      right_arm |-> Int2F(angle + right_noise),
                      left_leg  |-> None,
                      right_leg |-> None]
           r      == update(ctr, angles)
       IN  /\ ctr' = r.self
           /\ result' = r.value
           /\ fed' = Append(fed, "rep_detected" \in DOMAIN r.value
                                     /\ r.value.rep_detected)
    /\ call' = [op |-> "update", primary_missing |-> FALSE]
    /\ UNCHANGED <<exercises, raised, dipped, ctr2, result2>>

DemoNext ==
    \E left_noise \in NoiseValues, right_noise \in NoiseValues :
        DemoFrame(left_noise, right_noise)

DemoSpec == DemoInit /\ [][DemoNext]_vars

(***************************************************************************)
(* The angle computation on three points.  The points have whole-number    *)
(* coordinates; the cosine is kept exactly, as the sign of the dot product *)
(* and the rational dot^2 / (|ba|^2 |bc|^2), and an angle in degrees is    *)
(* given by a lower and an upper bound, equal where arccos is known        *)
(* exactly (0, 30, 45, 60, 90 and their supplements).                      *)
(***************************************************************************)
\* the coordinates run from -MaxCoord to MaxCoord
MaxCoord == 1

Points == [x : (0 - MaxCoord)..MaxCoord, y : (0 - MaxCoord)..MaxCoord]

\* np.dot
dot(u, v) == u.x * v.x + u.y * v.y

\* np.degrees(np.arccos(c)) for 0 <= c <= 1 with c^2 = num / den
arccos_degrees(num, den) ==
    IF num >= den THEN [lo |-> 0, hi |-> 0]     \* np.clip(c, -1.0, 1.0)
    ELSE IF 4 * num > 3 * den THEN [lo |-> 0, hi |-> 30]
    ELSE IF 4 * num = 3 * den THEN [lo |-> 30, hi |-> 30]
    ELSE IF 2 * num > den THEN [lo |-> 30, hi |-> 45]
    ELSE IF 2 * num = den THEN [lo |-> 45, hi |-> 45]
    ELSE IF 4 * num > den THEN [lo |-> 45, hi |-> 60]
    ELSE IF 4 * num = den THEN [lo |-> 60, hi |-> 60]
    ELSE IF num > 0 THEN [lo |-> 60, hi |-> 90]
    ELSE [lo |-> 90, hi |-> 90]

\* the angle from the difference of the directions of the two edges
\* (atan2 of one minus atan2 of the other): negative on a clockwise turn
calculate_angle_signed(point1, point2, point3) ==
    LET ba     == [x |-> point1.x - point2.x, y |-> point1.y - point2.y]
        bc     == [x |-> point3.x - point2.x, y |-> point3.y - point2.y]
        den    == dot(ba, ba) * dot(bc, bc)
        acute  == arccos_degrees(dot(ba, bc) * dot(ba, bc), den)
        angle  == IF dot(ba, bc) >= 0 THEN acute
                  ELSE [lo |-> 180 - acute.hi, hi |-> 180 - acute.lo]
    IN  IF den = 0 THEN NaN
        ELSE IF ba.x * bc.y - ba.y * bc.x > 0
        THEN [lo |-> 0 - angle.hi, hi |-> 0 - angle.lo]
        ELSE angle

\* calculate_angle: the angle at point2, NaN when an edge has length zero
calculate_angle(point1, point2, point3) ==
    LET ba     == [x |-> point1.x - point2.x, y |-> point1.y - point2.y]
        bc     == [x |-> point3.x - point2.x, y |-> point3.y - point2.y]
        den    == dot(ba, ba) * dot(bc, bc)
        acute  == arccos_degrees(dot(ba, bc) * dot(ba, bc), den)
    IN  IF den = 0 THEN NaN
        ELSE IF dot(ba, bc) >= 0 THEN acute
        ELSE [lo |-> 180 - acute.hi, hi |-> 180 - acute.lo]

\* the three points of one call, drawn before it is made
AngleInit ==
    \E point1 \in Points, point2 \in Points, point3 \in Points :
        /\ call = [op |-> "PoseEstimator", point1 |-> point1,
                   point2 |-> point2, point3 |-> point3]
        /\ result = None
        /\ raised = "none"
        /\ ctr = None
        /\ dipped = FALSE
        /\ exercises = load_exercise_configs
        /\ fed = <<>>
        /\ ctr2 = None
        /\ result2 = None

\* angle = self.calculate_angle(point1, point2, point3)
CalculateAngle ==
    /\ call.op = "PoseEstimator"
    /\ result' = calculate_angle(call.point1, call.point2, call.point3)
    /\ raised' = "none"
    /\ call' = [call EXCEPT !.op = "calculate_angle"]
    /\ UNCHANGED <<exercises, ctr, dipped, fed, ctr2, result2>>

AngleNext == CalculateAngle

AngleSpec == AngleInit /\ [][AngleNext]_vars

(***************************************************************************)
(* One movement: a counter, new or used and reset, is given W frames below *)
(* its min threshold and then W frames above its max threshold, W being    *)
(* its window; fed holds the rep_detected of the frames of the movement.   *)
(***************************************************************************)
MaxRunWindow == 2

\* one-sided frames: the left arm and the left leg read v
RunFrame(v) ==
    [left_arm |-> Int2F(v), right_arm |-> None,
     left_leg |-> Int2F(v), right_leg |-> None]

\* readings on both sides of every threshold of the five exercises
RunValues == {0, 25, 35, 65, 75, 120, 165, 180}

RunExercises == {"pushups", "squats", "lunges", "pullups", "bicep_curls"}

RunInit ==
    \E t \in RunExercises, w \in 1..MaxRunWindow :
        /\ ctr = init(t, w).self
        /\ call = [op |-> "__init__"]
        /\ result = None
        /\ raised = "none"
        /\ dipped = FALSE
        /\ exercises = load_exercise_configs
        /\ fed = <<>>
        /\ ctr2 = None
        /\ result2 = None

\* an update before the movement, with any reading, of a counter that will
\* be reset
RunEarlier(v) ==
    /\ call.op \in {"__init__", "earlier"}
    /\ ctr.rep_count = 0
    /\ LET r == update(ctr, RunFrame(v)) IN
       /\ ctr' = r.self
       /\ result' = r.value
    /\ call' = [op |-> "earlier"]
    /\ UNCHANGED <<exercises, raised, dipped, fed, ctr2, result2>>

\* rep_counter.reset() before the movement
RunReset ==
    /\ call.op = "earlier"
    /\ ctr' = reset(ctr)
    /\ result' = None
    /\ call' = [op |-> "reset"]
    /\ UNCHANGED <<exercises, raised, dipped, fed, ctr2, result2>>

\* one frame of the movement: below min for the first W, above max after
RunUpdate(v) ==
    /\ call.op \in {"__init__", "reset", "update"}
    /\ Len(fed) < 2 * ctr.smoothing_window
    /\ IF Len(fed) < ctr.smoothing_window
       THEN v < ctr.min_angle_threshold
       ELSE v > ctr.max_angle_threshold
    /\ LET r == update(ctr, RunFrame(v)) IN
       /\ ctr' = r.self
       /\ result' = r.value
       /\ fed' = Append(fed, r.value.rep_detected)
    /\ call' = [op |-> "update", primary_missing |-> FALSE]
    /\ UNCHANGED <<exercises, raised, dipped, ctr2, result2>>

RunNext ==
    \/ \E v \in RunValues : RunEarlier(v)
    \/ RunReset
    \/ \E v \in RunValues : RunUpdate(v)

RunSpec == RunInit /\ [][RunNext]_vars

(***************************************************************************)
(* The legacy ExerciseCounter.  The pose landmarks are given by what the   *)
(* counter computes from them: the angles at the two elbows and at the two *)
(* knees; landmarks without the landmark list make every angle computation *)
(* raise.  The object is a record of its attributes, held in ctr.          *)
(***************************************************************************)
\* ExerciseCounter.__init__
ExerciseCounter(exercise_type) ==
    [exercise_type    |-> exercise_type,
     rep_count        |-> 0,
     position_state   |-> "unknown",
     movement_history |-> <<>>,
     thresholds       |-> [push_ups    |-> [up |-> 160, down |-> 90],
                           squats      |-> [up |-> 160, down |-> 90],
                           pull_ups    |-> [up |-> 160, down |-> 90],
                           bicep_curls |-> [up |-> 160, down |-> 45]],
     last_state       |-> "up",
     state_changed    |-> FALSE]

\* the end of the four _count_*_reps: a rep on the change from down to up
count_on_state(self, current_state) ==
    LET counted == IF self.last_state = "down" /\ current_state = "up"
                   THEN [self EXCEPT !.rep_count = @ + 1] ELSE self
        self2   == [counted EXCEPT !.last_state = current_state]
    IN  [self |-> self2, value |-> self2.rep_count, current_state |-> current_state]

\* the except branch of the four _count_*_reps, and the two early returns
\* of count_repetition: no frame was classified
count_failed(self) ==
    [self |-> self, value |-> self.rep_count, current_state |-> "none"]

\* _count_pushup_reps, but every frame classified up counts
count_pushup_reps_ungated(self, landmarks) ==
    IF "elbows" \notin DOMAIN landmarks THEN count_failed(self)
    ELSE LET avg_angle == FDiv(FAdd(landmarks.elbows[1], landmarks.elbows[2]), 2)
             up        == FGt(avg_angle, Int2F(self.thresholds["push_ups"]["up"]))
         IN  [self |-> [self EXCEPT !.rep_count = IF up THEN @ + 1 ELSE @,
                                    !.last_state = IF up THEN "up" ELSE "down"],
              value |-> IF up THEN self.rep_count + 1 ELSE self.rep_count,
              current_state |-> IF up THEN "up" ELSE "down"]

\* _count_pushup_reps
count_pushup_reps(self, landmarks) ==
    IF "elbows" \notin DOMAIN landmarks THEN count_failed(self)
    ELSE LET avg_angle == FDiv(FAdd(landmarks.elbows[1], landmarks.elbows[2]), 2)
         IN  count_on_state(self,
                 IF FGt(avg_angle, Int2F(self.thresholds["push_ups"]["up"]))
                 THEN "up" ELSE "down")

\* _count_squat_reps
count_squat_reps(self, landmarks) ==
    IF "knees" \notin DOMAIN landmarks THEN count_failed(self)
    ELSE LET avg_angle == FDiv(FAdd(landmarks.knees[1], landmarks.knees[2]), 2)
         IN  count_on_state(self,
                 IF FGt(avg_angle, Int2F(self.thresholds["squats"]["up"]))
                 THEN "up" ELSE "down")

\* _count_pullup_reps
count_pullup_reps(self, landmarks) ==
    IF "elbows" \notin DOMAIN landmarks THEN count_failed(self)
    ELSE LET avg_angle == FDiv(FAdd(landmarks.elbows[1], landmarks.elbows[2]), 2)
         IN  count_on_state(self,
                 IF FLt(avg_angle, Int2F(self.thresholds["pull_ups"]["down"]))
                 THEN "up" ELSE "down")

\* _count_bicep_curl_reps
count_bicep_curl_reps(self, landmarks) ==
    IF "elbows" \notin DOMAIN landmarks THEN count_failed(self)
    ELSE LET avg_angle == FDiv(FAdd(landmarks.elbows[1], landmarks.elbows[2]), 2)
         IN  count_on_state(self,
                 IF FLt(avg_angle, Int2F(self.thresholds["bicep_curls"]["down"]))
                 THEN "up" ELSE "down")

\* count_repetition
count_repetition(self, landmarks) ==
    IF landmarks = None THEN count_failed(self)
    ELSE IF self.exercise_type = "push_ups" THEN count_pushup_reps(self, landmarks)
    ELSE IF self.exercise_type = "squats" THEN count_squat_reps(self, landmarks)
    ELSE IF self.exercise_type = "pull_ups" THEN count_pullup_reps(self, landmarks)
    ELSE IF self.exercise_type = "bicep_curls"
    THEN count_bicep_curl_reps(self, landmarks)
    ELSE count_failed(self)

\* reset_count
reset_count(self) ==
    [self EXCEPT !.rep_count = 0, !.last_state = "up", !.movement_history = <<>>]

\* count_repetition is not called any more at MaxLegacyReps reps
MaxLegacyReps == 2

\* the four supported types, and two the legacy counter does not support
LegacyExercises ==
    {"push_ups", "squats", "pull_ups", "bicep_curls", "pushups", "lunges"}

\* the angle at one joint: on a threshold, on either side of it, or NaN
LegacyAngles == {Int2F(0), Int2F(90), Int2F(160), Int2F(180), NaN}

\* no landmarks, landmarks without the landmark list, and landmarks whose
\* knees are bent as the elbows are
LegacyLandmarks ==
    {None, [incomplete |-> TRUE]}
        \cup {[elbows |-> <<l, r>>, knees |-> <<l, r>>] :
                  l \in LegacyAngles, r \in LegacyAngles}

LegacyInit ==
    \E t \in LegacyExercises :
        /\ ctr = ExerciseCounter(t)
        /\ call = [op |-> "__init__", exercise_type |-> t]
        /\ result = None
        /\ raised = "none"
        /\ dipped = FALSE
        /\ exercises = load_exercise_configs
        /\ fed = <<>>
        /\ ctr2 = None
        /\ result2 = None

\* count = counter.count_repetition(landmarks)
CountRepetition(landmarks) ==
    /\ ctr.rep_count < MaxLegacyReps
    /\ LET r == count_repetition(ctr, landmarks) IN
       /\ ctr' = r.self
       /\ result' = r.value
       /\ call' = [op |-> "count_repetition", landmarks |-> landmarks,
                   current_state |-> r.current_state]
    /\ UNCHANGED <<exercises, raised, dipped, fed, ctr2, result2>>

\* counter.reset_count()
ResetCount ==
    /\ ctr' = reset_count(ctr)
    /\ result' = None
    /\ call' = [op |-> "reset_count"]
    /\ UNCHANGED <<exercises, raised, dipped, fed, ctr2, result2>>

LegacyNext ==
    \/ \E landmarks \in LegacyLandmarks : CountRepetition(landmarks)
    \/ ResetCount

LegacySpec == LegacyInit /\ [][LegacyNext]_vars

(***************************************************************************)
(* The counter with the frame of its last call kept in fed, for what is    *)
(* said about a frame's per-limb angles; get_primary_angle() is also       *)
(* called on its own.                                                      *)
(***************************************************************************)
MaxFrameWindow == 1
MaxFrameReps == 1

FrameInit ==
    \E t \in ExerciseArgs, w \in 1..MaxFrameWindow :
        LET made == init(t, w) IN
        /\ ctr = made.self
        /\ call = [op |-> "__init__", exercise_type |-> t, smoothing_window |-> w]
        /\ result = None
        /\ raised = made.raised
        /\ dipped = FALSE
        /\ exercises = load_exercise_configs
        /\ fed = <<>>
        /\ ctr2 = None
        /\ result2 = None

\* rep_update = self.rep_counter.update(angles)
FrameUpdate(angles) ==
    /\ ctr.rep_count < MaxFrameReps
    /\ LET r == update(ctr, angles) IN
       /\ ctr' = r.self
       /\ result' = r.value
    /\ call' = [op |-> "update", primary_missing |-> PrimaryMissing(ctr, angles)]
    /\ fed' = <<angles>>
    /\ raised' = "none"
    /\ UNCHANGED <<exercises, dipped, ctr2, result2>>

\* primary_angle = self.get_primary_angle(angles)
FramePrimary(angles) ==
    /\ result' = get_primary_angle(ctr, angles)
    /\ call' = [op |-> "get_primary_angle"]
    /\ fed' = <<angles>>
    /\ raised' = "none"
    /\ UNCHANGED <<exercises, ctr, dipped, ctr2, result2>>

\* rep_counter.reset()
FrameReset ==
    /\ ctr' = reset(ctr)
    /\ call' = [op |-> "reset"]
    /\ result' = None
    /\ fed' = <<>>
    /\ raised' = "none"
    /\ UNCHANGED <<exercises, dipped, ctr2, result2>>

FrameNext ==
    \/ \E angles \in Frames : FrameUpdate(angles)
    \/ \E angles \in Frames : FramePrimary(angles)
    \/ FrameReset

FrameSpec == FrameInit /\ [][FrameNext]_vars

(***************************************************************************)
(* Properties.                                                             *)
(***************************************************************************)
\* the library's profile of the counter's exercise (None: not registered)
Profile(self) == get_exercise(self.exercise_type)

HasPattern(self, pattern) ==
    /\ Profile(self) # None
    /\ Profile(self).movement_pattern = pattern

\* C1: every update() leaves rep_count unchanged or adds exactly 1 to it,
\* and rep_count decreases only in reset().
C1_RepCountStepsByOne ==
    [][/\ call'.op = "update" =>
             ctr'.rep_count \in {ctr.rep_count, ctr.rep_count + 1}
       /\ ctr'.rep_count < ctr.rep_count => call'.op = "reset"]_vars

\* an update without a primary angle, made after a rep has been counted
C1_Witness ==
    /\ call.op = "update"
    /\ ctr.rep_count >= 1
    /\ call.primary_missing

\* C2: reset() yields rep_count 0, phase "ready" and an empty smoothing
\* buffer, and leaves the exercise identifier, both thresholds, the
\* primary-angle selector and the window size as they were.
C2_ResetEffect ==
    [][call'.op = "reset" =>
          /\ ctr'.rep_count = 0
          /\ ctr'.current_phase = "ready"
          /\ ctr'.angle_history = <<>>
          /\ ctr'.exercise_type = ctr.exercise_type
          /\ ctr'.min_angle_threshold = ctr.min_angle_threshold
          /\ ctr'.max_angle_threshold = ctr.max_angle_threshold
          /\ ctr'.primary_angle = ctr.primary_angle
          /\ ctr'.smoothing_window = ctr.smoothing_window]_vars

\* a counter for a leg exercise with window 2 that has just been reset
C2_Witness ==
    /\ call.op = "reset"
    /\ ctr.primary_angle = "leg"
    /\ ctr.smoothing_window = 2
    /\ ctr.min_angle_threshold = 80

\* C3: for the exercises the library registers as down_up, an update with a
\* primary angle moves "ready" to "down" exactly when the smoothed angle
\* (the angle of the result) is
\* strictly below the profile's min threshold, moves "down" to "ready" and
\* adds one rep exactly when it is strictly above the profile's max
\* threshold, and changes neither phase nor rep_count otherwise.
C3_DownUpTransitions ==
    [][(/\ call'.op = "update"
        /\ ~call'.primary_missing
        /\ HasPattern(ctr, "down_up")) =>
          LET below == FLt(result'.angle,
                           Int2F(Profile(ctr).min_angle_threshold))
              above == FGt(result'.angle,
                           Int2F(Profile(ctr).max_angle_threshold))
              same  == /\ ctr'.current_phase = ctr.current_phase
                       /\ ctr'.rep_count = ctr.rep_count
          IN  /\ ctr.current_phase = "ready" =>
                    IF below THEN /\ ctr'.current_phase = "down"
                                  /\ ctr'.rep_count = ctr.rep_count
                    ELSE same
              /\ ctr.current_phase = "down" =>
                    IF above THEN /\ ctr'.current_phase = "ready"
                                  /\ ctr'.rep_count = ctr.rep_count + 1
                    ELSE same
              /\ ctr.current_phase \notin {"ready", "down"} => same]_vars

\* a lunges counter whose last update completed a rep
C3_Witness ==
    /\ call.op = "update"
    /\ ctr.exercise_type = "lunges"
    /\ "rep_detected" \in DOMAIN result
    /\ result.rep_detected

\* C4: for every exercise the library registers as up_down, an update with
\* a primary angle moves "ready" to the first-leg phase "up" when the
\* smoothed angle is below the profile's min threshold, and moves "up" to
\* "ready", adding one rep, when it is above the profile's max threshold.
C4_UpDownTransitions ==
    [][(/\ call'.op = "update"
        /\ ~call'.primary_missing
        /\ HasPattern(ctr, "up_down")) =>
          /\ (/\ ctr.current_phase = "ready"
              /\ FLt(result'.angle,
                     Int2F(Profile(ctr).min_angle_threshold))) =>
                ctr'.current_phase = "up"
          /\ (/\ ctr.current_phase = "up"
              /\ FGt(result'.angle,
                     Int2F(Profile(ctr).max_angle_threshold))) =>
                /\ ctr'.current_phase = "ready"
                /\ ctr'.rep_count = ctr.rep_count + 1]_vars

\* C5: a rep is counted only after an update has smoothed to below the min
\* threshold since the construction, the reset or the rep before it; and in
\* a first-leg phase an update whose smoothed angle does not exceed the max
\* threshold (another sample below min, a fluctuation) counts nothing.
C5_OneRepPerCycle ==
    [][/\ ctr'.rep_count > ctr.rep_count => dipped
       /\ (/\ call'.op = "update"
           /\ ~call'.primary_missing
           /\ ctr.current_phase \in {"down", "up"}
           /\ ~FGt(result'.angle, Int2F(ctr.max_angle_threshold))) =>
             /\ ctr'.rep_count = ctr.rep_count
             /\ ctr'.current_phase = ctr.current_phase]_vars

\* the second rep of a counter has just been counted
C5_Witness ==
    /\ call.op = "update"
    /\ ctr.rep_count = 2
    /\ "rep_detected" \in DOMAIN result
    /\ result.rep_detected
    /\ ~dipped

\* C6: for an exercise the library registers as hold (planks), rep_count
\* stays 0, no update returns a true rep_detected and the phase stays
\* "ready".
C6_HoldNeverCounts ==
    HasPattern(ctr, "hold") =>
        /\ ctr.rep_count = 0
        /\ ctr.current_phase = "ready"
        /\ ~("rep_detected" \in DOMAIN result /\ result.rep_detected)

\* a planks counter that has smoothed to below 70 and now to above 160
C6_Witness ==
    /\ ctr.exercise_type = "planks"
    /\ dipped
    /\ call.op = "update"
    /\ "rep_detected" \in DOMAIN result
    /\ FGt(result.angle, Int2F(160))

\* C7: an update whose frame has neither side of the selected limb pair
\* leaves the whole counter (rep_count, phase, smoothing buffer) as it was.
C7_MissingAngleChangesNothing ==
    [][(call'.op = "update" /\ call'.primary_missing) => ctr' = ctr]_vars

\* an update without a primary angle, made in a first-leg phase with
\* samples in the buffer
C7_Witness ==
    /\ call.op = "update"
    /\ call.primary_missing
    /\ ctr.current_phase # "ready"
    /\ Len(ctr.angle_history) = 2

\* C8 as stated: an update without a primary angle does not raise and
\* returns the single feedback message "pose not detected" and no angle.
C8_PoseNotDetectedText ==
    [][(call'.op = "update" /\ call'.primary_missing) =>
          /\ raised' = "none"
          /\ result'.form_feedback = <<"pose not detected">>
          /\ result'.angle = None]_vars

\* C8, amended: an update without a primary angle does not raise and
\* returns the single feedback message "Unable to detect pose" and no
\* angle.
C8_UnableToDetectPose ==
    [][(call'.op = "update" /\ call'.primary_missing) =>
          /\ raised' = "none"
          /\ result'.form_feedback = <<"Unable to detect pose">>
          /\ result'.angle = None]_vars

\* an update without a primary angle on a squats counter that holds a sample
C8_Witness ==
    /\ call.op = "update"
    /\ ctr.exercise_type = "squats"
    /\ ctr.angle_history # <<>>
    /\ call.primary_missing
    /\ Len(result.form_feedback) = 1

\* C9: every dict update() returns has the boolean key rep_detected, also
\* for a frame without a primary angle, where it is false; it is true in
\* exactly the updates that increased rep_count.
C9_RepDetectedAlwaysReturned ==
    [][call'.op = "update" =>
          /\ "rep_detected" \in DOMAIN result'
          /\ result'.rep_detected \in BOOLEAN
          /\ result'.rep_detected <=> ctr'.rep_count > ctr.rep_count]_vars

LastK(s, k) == SubSeq(s, Len(s) - k + 1, Len(s))

Min(a, b) == IF a < b THEN a ELSE b

\* C11: the n-th push since construction or reset returns the mean of the
\* last min(n, W) pushed values, which are what the buffer holds, oldest
\* first; the buffer never holds more than W samples.
C11_MeanOfLastPushes ==
    LET n == Len(fed)
        k == Min(n, ctr.smoothing_window)
    IN  /\ Len(ctr.angle_history) <= ctr.smoothing_window
        /\ ctr.angle_history = LastK(fed, k)
        /\ call.op = "smooth_angle" => result = np_mean(LastK(fed, k))

\* the fourth push into a window of 3, the evicted value differing from the
\* ones held
C11_Witness ==
    /\ call.op = "smooth_angle"
    /\ ctr.smoothing_window = 3
    /\ fed = <<Int2F(200), Int2F(0), Int2F(100), Int2F(100)>>

\* C12 as stated: a window of 5 fed 100 five times and then 200 returns
\* 140.0 for the last push.
C12_Mean140 ==
    (/\ call.op = "smooth_angle"
     /\ ctr.smoothing_window = 5
     /\ fed = <<Int2F(100), Int2F(100), Int2F(100), Int2F(100), Int2F(100),
                Int2F(200)>>) =>
        result = Int2F(140)

\* C12, amended: a window of 5 fed 100 five times and then 200 returns
\* 120.0 for the last push, the mean of 100, 100, 100, 100, 200.
C12_Mean120 ==
    (/\ call.op = "smooth_angle"
     /\ ctr.smoothing_window = 5
     /\ fed = <<Int2F(100), Int2F(100), Int2F(100), Int2F(100), Int2F(100),
                Int2F(200)>>) =>
        result = Int2F(120)

\* the sixth push of C12 has been made
C12_Witness ==
    /\ call.op = "smooth_angle"
    /\ ctr.smoothing_window = 5
    /\ fed = <<Int2F(100), Int2F(100), Int2F(100), Int2F(100), Int2F(100),
               Int2F(200)>>
    /\ ctr.angle_history = <<Int2F(100), Int2F(100), Int2F(100), Int2F(100),
                             Int2F(200)>>

\* the keys of the two limbs the counter's selector reads
LeftKey(self) == IF self.primary_angle = "arm" THEN "left_arm" ELSE "left_leg"
RightKey(self) == IF self.primary_angle = "arm" THEN "right_arm" ELSE "right_leg"

\* C13: get_primary_angle returns the mean of the left and right angles of
\* the selected pair when both are present, the single present angle when
\* exactly one is (also when its value is 0), and None when neither is.
C13_PrimaryAngleSelection ==
    call.op = "get_primary_angle" =>
        LET left  == fed[1][LeftKey(ctr)]
            right == fed[1][RightKey(ctr)]
        IN  /\ ctr.primary_angle \in {"arm", "leg"}
            /\ (left # None /\ right # None) =>
                   result = FDiv(FAdd(left, right), 2)
            /\ (left # None /\ right = None) => result = left
            /\ (left = None /\ right # None) => result = right
            /\ (left = None /\ right = None) => result = None

\* only the right leg is present, reading 0, and the call returned 0
C13_Witness ==
    /\ call.op = "get_primary_angle"
    /\ ctr.primary_angle = "leg"
    /\ fed[1]["left_leg"] = None
    /\ fed[1]["right_leg"] = Int2F(0)
    /\ result = Int2F(0)

\* C14: an update whose primary angle is undefined (NaN, from a zero-length
\* edge) is treated as a missing sample: the buffer is left as it was, so
\* that the NaN is neither counted in the mean nor evicts an earlier sample,
\* and phase and rep_count hold.
C14_UndefinedAngleSkipped ==
    [][(/\ call'.op = "update"
        /\ ~call'.primary_missing
        /\ IsNaN(get_primary_angle(ctr, fed'[1]))) =>
            /\ ctr'.angle_history = ctr.angle_history
            /\ ctr'.current_phase = ctr.current_phase
            /\ ctr'.rep_count = ctr.rep_count]_vars

\* C15: from Ready, the down_up script fed to a down_up machine with
\* thresholds 70/160, and the up_down script fed to an up_down machine with
\* thresholds 30/160, complete exactly one rep: no call before the last one
\* reports a rep, the last one does, and rep_count ends at 1.
C15_ScriptsCountOneRep ==
    \A n \in 1..Len(Script(ctr)) :
        (/\ fed = SubSeq(Script(ctr), 1, n)
         /\ \/ /\ HasPattern(ctr, "down_up")
               /\ ctr.min_angle_threshold = 70
               /\ ctr.max_angle_threshold = 160
               /\ Script(ctr) = DownUpScript
            \/ /\ HasPattern(ctr, "up_down")
               /\ ctr.min_angle_threshold = 30
               /\ ctr.max_angle_threshold = 160
               /\ Script(ctr) = UpDownScript) =>
            /\ result = (n = Len(Script(ctr)))
            /\ ctr.rep_count = IF n = Len(Script(ctr)) THEN 1 ELSE 0

\* the whole down_up script has been fed to a push-up counter
C15_Witness ==
    /\ ctr.exercise_type = "pushups"
    /\ HasPattern(ctr, "down_up")
    /\ fed = DownUpScript
    /\ ctr.rep_count = 1

\* the phases legal for a registered exercise: Ready and the first-leg phase
\* of its movement pattern
LegalPhases(self) ==
    IF HasPattern(self, "down_up") THEN {"ready", "down"}
    ELSE IF HasPattern(self, "up_down") THEN {"ready", "up"}
    ELSE {"ready"}

\* C16: for a registered exercise an update starts and ends in Ready or the
\* first-leg phase of the movement pattern (Ready alone for hold), so that it
\* leaves the phase unchanged or moves Ready -> first-leg or first-leg ->
\* Ready; and it increases rep_count exactly when it moves first-leg -> Ready.
C16_LegalPhaseEdges ==
    [][(call'.op = "update" /\ Profile(ctr) # None) =>
          /\ ctr.current_phase \in LegalPhases(ctr)
          /\ ctr'.current_phase \in LegalPhases(ctr)
          /\ (ctr'.rep_count > ctr.rep_count) <=>
                 (/\ ctr.current_phase # "ready"
                  /\ ctr'.current_phase = "ready")]_vars

\* a pull-ups counter whose last update moved "up" to "ready" with a rep
C16_Witness ==
    /\ call.op = "update"
    /\ ctr.exercise_type = "pullups"
    /\ ctr.current_phase = "ready"
    /\ ctr.rep_count = 1
    /\ "rep_detected" \in DOMAIN result
    /\ result.rep_detected

\* the two messages _evaluate_form appends when no rule has fired
Affirmative == {"Good form! Ready for next rep", "Keep going!"}

\* C17: the feedback of an update with a primary angle is non-empty; an
\* affirmative message in it is the only message (so it never stands next to
\* a corrective one, and a feedback without corrective messages is exactly
\* one affirmative message), and it is "Good form! Ready for next rep" if
\* the phase after the update is "ready" and "Keep going!" otherwise.
C17_AffirmativeFeedback ==
    (call.op = "update" /\ ~call.primary_missing) =>
        LET feedback == result.form_feedback IN
        /\ feedback # <<>>
        /\ (\E i \in 1..Len(feedback) : feedback[i] \in Affirmative) =>
               feedback = <<IF ctr.current_phase = "ready"
                            THEN "Good form! Ready for next rep"
                            ELSE "Keep going!">>

\* an update that ended in the first-leg phase and fired no rule
C17_Witness ==
    /\ call.op = "update"
    /\ ~call.primary_missing
    /\ ctr.current_phase = "down"
    /\ result.form_feedback = <<"Keep going!">>

\* the symmetry rule a profile lists, if any
SymmetryRules(self) ==
    {Profile(self).form_checks[i] : i \in 1..Len(Profile(self).form_checks)}
        \cap {"arm_symmetry", "leg_symmetry"}

\* C18: for an exercise whose profile lists a symmetry rule, the feedback of
\* an update holds the symmetry message if and only if both raw angles of
\* the pair are present and differ by more than the tolerance (20 for the
\* legs, 15 for the arms).
C18_SymmetryRule ==
    (/\ call.op = "update"
     /\ ~call.primary_missing
     /\ Profile(ctr) # None
     /\ SymmetryRules(ctr) # {}) =>
        LET legs     == "leg_symmetry" \in SymmetryRules(ctr)
            left     == fed[1][IF legs THEN "left_leg" ELSE "left_arm"]
            right    == fed[1][IF legs THEN "right_leg" ELSE "right_arm"]
            T        == IF legs THEN 20 ELSE 15
            message  == IF legs THEN "Balance both legs evenly"
                        ELSE "Keep arms symmetric"
            feedback == result.form_feedback
        IN  (\E i \in 1..Len(feedback) : feedback[i] = message)
                <=> (/\ left # None
                     /\ right # None
                     /\ FGt(FAbs(FSub(left, right)), Int2F(T)))

\* the messages of the depth checks
DepthMessages ==
    {"Go lower - chest to ground", "Squat deeper - thighs parallel to ground",
     "Go deeper"}

RECURSIVE Alone(_, _, _)
Alone(self, who, log) ==
    IF log = <<>>
    THEN [self  |-> init(self.exercise_type, self.smoothing_window).self,
          value |-> None]
    ELSE LET before == Alone(self, who, SubSeq(log, 1, Len(log) - 1))
             last   == log[Len(log)]
         IN  IF last.on # who THEN before
             ELSE IF last.op = "update" THEN update(before.self, last.angles)
             ELSE [self |-> reset(before.self), value |-> None]

C23_CaseInsensitiveLookup ==
    /\ exercises = load_exercise_configs
    /\ {"pushups", "squats"} \subseteq DOMAIN exercises
    /\ "invalid_exercise" \notin DOMAIN exercises
    /\ call.op = "validate_exercise_name" =>
           result = (lower(call.exercise_name) \in DOMAIN exercises)
    /\ (/\ call.op = "get_exercise"
        /\ validate_exercise_name(call.exercise_name)) =>
           /\ result # None
           /\ result.name = lower(call.exercise_name)

\* an identifier in capitals has been validated
C23_Witness ==
    /\ call.op = "validate_exercise_name"
    /\ call.exercise_name = "SHOULDER_PRESS"
    /\ result = TRUE

\* the movement pattern of the machine _detect_repetition runs for a counter
MachinePattern(self) ==
    IF self.exercise_type \in {"pushups", "squats", "lunges"} THEN "down_up"
    ELSE IF self.exercise_type \in {"pullups", "bicep_curls"} THEN "up_down"
    ELSE "hold"

\* C26: a counter constructed with a registered identifier, in any letter
\* case, has the profile's min and max thresholds and primary-angle
\* selector, and runs the machine of the profile's movement pattern.
C26_CounterUsesProfile ==
    (call.op = "__init__" /\ validate_exercise_name(call.exercise_type)) =>
        LET profile == get_exercise(call.exercise_type) IN
        /\ ctr.min_angle_threshold = profile.min_angle_threshold
        /\ ctr.max_angle_threshold = profile.max_angle_threshold
        /\ ctr.primary_angle = profile.primary_angle_type
        /\ MachinePattern(ctr) = profile.movement_pattern

\* C24: the demo's sequence, each arm within 5 of the listed angle, has a
\* rep reported at the 7th frame and at the 12th frame, and rep_count is 2
\* after the 12th.
C24_DemoCountsTwoReps ==
    /\ Len(fed) >= 7 => fed[7]
    /\ Len(fed) = 12 => fed[12] /\ ctr.rep_count = 2

\* C25: the angle of three points whose edges at the middle point are
\* perpendicular is 90 degrees, and the angle of every triple whose edges
\* both have a length lies in [0, 180].
C25_RightAngleAndRange ==
    call.op = "calculate_angle" =>
        LET ba == [x |-> call.point1.x - call.point2.x,
                   y |-> call.point1.y - call.point2.y]
            bc == [x |-> call.point3.x - call.point2.x,
                   y |-> call.point3.y - call.point2.y]
        IN  (dot(ba, ba) > 0 /\ dot(bc, bc) > 0) =>
                /\ raised = "none"
                /\ result # NaN
                /\ 0 <= result.lo /\ result.lo <= result.hi /\ result.hi <= 180
                /\ dot(ba, bc) = 0 => result = [lo |-> 90, hi |-> 90]

\* the triple of the functionality test: (0,1), (0,0), (1,0)
C25_Witness ==
    /\ call.op = "calculate_angle"
    /\ call.point1 = [x |-> 0, y |-> 1]
    /\ call.point2 = [x |-> 0, y |-> 0]
    /\ call.point3 = [x |-> 1, y |-> 0]
    /\ result = [lo |-> 90, hi |-> 90]

\* C27: after an update the form_feedback attribute of the counter, which
\* the stats panel reads, is the feedback list that update returned; after
\* reset() it is empty.
C27_LastFeedbackKept ==
    /\ call.op = "update" => ctr.form_feedback = result.form_feedback
    /\ call.op = "reset" => ctr.form_feedback = <<>>

\* the calls of the log made on `who` after its last reset(), and whether
\* there was one
RECURSIVE SinceReset(_, _)
SinceReset(log, who) ==
    IF log = <<>> THEN [calls |-> <<>>, was_reset |-> FALSE]
    ELSE LET before == SinceReset(SubSeq(log, 1, Len(log) - 1), who)
             last   == log[Len(log)]
         IN  IF last.on # who THEN before
             ELSE IF last.op = "reset"
             THEN [calls |-> <<>>, was_reset |-> TRUE]
             ELSE [before EXCEPT !.calls = Append(@, last)]

\* C28: once a counter has been reset, whatever it was given before, it and
\* its results are at every later step those of a newly constructed counter
\* for the same exercise and window given the calls made since the reset.
C28_ResetIsLikeNew ==
    /\ SinceReset(fed, "A").was_reset =>
           /\ ctr = Alone(ctr, "A", SinceReset(fed, "A").calls).self
           /\ result = Alone(ctr, "A", SinceReset(fed, "A").calls).value
    /\ SinceReset(fed, "B").was_reset =>
           /\ ctr2 = Alone(ctr2, "B", SinceReset(fed, "B").calls).self
           /\ result2 = Alone(ctr2, "B", SinceReset(fed, "B").calls).value

\* a push-up counter that had gone down was reset and then given 180: no
\* rep is counted and the mean is that of the one sample
C28_Witness ==
    /\ Len(fed) = 3
    /\ \A i \in 1..3 : fed[i].on = "A"
    /\ fed[1].op = "update" /\ fed[1].angles["left_arm"] = Int2F(0)
    /\ fed[2].op = "reset"
    /\ fed[3].op = "update" /\ fed[3].angles["left_arm"] = Int2F(180)
    /\ ctr.exercise_type = "pushups"
    /\ ctr.rep_count = 0
    /\ result.angle = Int2F(180)

\* C29: W frames below the min threshold followed by W frames above the max
\* threshold, given to a new or reset counter of window W, produce exactly
\* one rep: never more than one is reported, rep_count is the number
\* reported, and one has been reported when the last of the 2W frames has
\* been given.
C29_OneRepPerMovement ==
    call.op \in {"reset", "update"} =>
        LET reported == Cardinality({i \in 1..Len(fed) : fed[i]}) IN
        /\ reported <= 1
        /\ ctr.rep_count = reported
        /\ Len(fed) = 2 * ctr.smoothing_window => reported = 1

\* a lunges counter of window 2 that reported its rep on the
\* last of the four frames
C29_Witness ==
    /\ ctr.exercise_type = "lunges"
    /\ ctr.smoothing_window = 2
    /\ fed = <<FALSE, FALSE, FALSE, TRUE>>
    /\ ctr.rep_count = 1

\* C30: count_repetition adds exactly 1 to rep_count when landmarks are
\* given, the exercise type is one of the four supported ones, last_state
\* is "down" and the frame is classified "up", and leaves rep_count as it
\* was otherwise; without landmarks or with an unsupported type it returns
\* the count and changes neither rep_count nor last_state; reset_count
\* yields the count 0.
C30_LegacyCounting ==
    [][/\ call'.op = "count_repetition" =>
             LET supported == ctr.exercise_type \in {"push_ups", "squats",
                                                     "pull_ups", "bicep_curls"}
                 counts    == /\ call'.landmarks # None
                              /\ supported
                              /\ ctr.last_state = "down"
                              /\ call'.current_state = "up"
             IN  /\ ctr'.rep_count = IF counts THEN ctr.rep_count + 1
                                     ELSE ctr.rep_count
                 /\ result' = ctr'.rep_count
                 /\ (call'.landmarks = None \/ ~supported) =>
                        /\ result' = ctr.rep_count
                        /\ ctr'.last_state = ctr.last_state
       /\ call'.op = "reset_count" => ctr'.rep_count = 0]_vars

\* a legacy pull-up counter that was down counted a rep on bent arms
C30_Witness ==
    /\ call.op = "count_repetition"
    /\ ctr.exercise_type = "pull_ups"
    /\ call.current_state = "up"
    /\ call.landmarks.elbows = <<Int2F(0), Int2F(90)>>
    /\ ctr.rep_count = 1
    /\ result = 1

=============================================================================
